---- MODULE Spec2Model ----
(***************************************************************************)
(* The auto-monitoring session engine of claude-code-vision:               *)
(* MonitoringSessionManager (src/services/monitoring_session_manager.py).  *)
(* Caller threads issue start/stop/pause/resume/get_active calls; every    *)
(* successful start launches one capture thread running _capture_loop.     *)
(* A `with self._lock:` block of a lifecycle call is one atomic step that  *)
(* is enabled only while the lock is free: a call that waits for the lock  *)
(* is a call whose step is not enabled. The capture thread keeps the lock  *)
(* over several steps (the tick, the paused sleep), so the lock holder is  *)
(* part of the state.                                                      *)
(* Spec is the engine with whole ticks; PipelineSpec follows one           *)
(* _perform_capture call after another collaborator call by collaborator   *)
(* call; IdleSpec is the idle policy (_maybe_update_idle_pause) next to    *)
(* pause and resume calls; RedactSpec is one apply_privacy_zones call and  *)
(* CompressSpec one optimize_image call of PillowImageProcessor            *)
(* (src/services/image_processor.py); CompressLiveSpec adds that the call  *)
(* keeps running.                                                          *)
(***************************************************************************)
EXTENDS Integers, FiniteSets, Sequences, TLC

\* ---------------------------------------------------------------- bounds
MaxSessions == 2      \* sessions (and capture threads) ever created
MaxTime == 1          \* the wall clock runs 0..MaxTime (one unit = one minute)
MaxCaptures == 1      \* transmitted captures per session
NumCallers == 2       \* threads that call the public operations
MaxTicks == 3         \* _perform_capture calls followed step by step
ImageSide == 3        \* the screenshot is ImageSide x ImageSide pixels
MaxZones == 2         \* privacy zones passed to one apply_privacy_zones call
MaxSize == 3          \* file sizes run 0..MaxSize

Callers == 1..NumCallers         \* caller threads
SessionIds == 1..MaxSessions     \* uuid4() values, in order of creation
Workers == SessionIds            \* the thread "MonitoringSession-<id>"
Digests == {1, 2}                \* calculate_image_hash results

None == 0 - 1                    \* Python's None, apart from every id, time and interval
NoHolder == None                 \* the lock is free

\* what the collaborators can return
IntervalArgs == {None, 0, 1}             \* start_session(interval_seconds)
IdleReadings == {None, 0, 60}            \* idle_seconds_provider()

\* config.monitoring as load_config() returns it: one configuration with a
\* default interval, a duration limit and idle pausing, and one with an
\* unusable default interval, no duration limit, no idle pausing, and change
\* detection
Configurations ==
    {[interval_seconds |-> 2, max_duration_minutes |-> 1,
      idle_pause_minutes |-> 1, change_detection |-> FALSE],
     [interval_seconds |-> 0, max_duration_minutes |-> 0,
      idle_pause_minutes |-> 0, change_detection |-> TRUE]}

VARIABLES
    active_session,   \* self._active_session: None or the id of the Session
    session,          \* the MonitoringSession object the slot refers to
    capture_thread,   \* self._capture_thread: None or a thread
    stop_event,       \* self._stop_event
    lock,             \* holder of self._lock
    nextId,           \* the next uuid4()
    wpc,              \* each capture thread's position in _capture_loop
    wstart,           \* each capture thread's local session_start
    cpc,              \* each caller's position in stop_session
    last,             \* what the step just taken returned to its caller, if it returned
    now,              \* datetime.now(timezone.utc)
    config,           \* config_manager.load_config()
    ppc,              \* the capture thread's position in _perform_capture
    screenshot,       \* _perform_capture's local variable screenshot
    temp_files,       \* the files that exist in the temp directory
    calls,            \* the collaborator calls of the running tick, in order
    transmitted,      \* send_multimodal_prompt calls that have returned
    at_entry,         \* the Session as the running tick or idle evaluation found it
    ended,            \* how the last _perform_capture call ended
    ticks,            \* _perform_capture calls begun
    idle_reading,     \* the last idle_seconds_provider() reading
    seen,             \* digests: of the running tick's capture, first hashed, last transmitted
    img,              \* apply_privacy_zones: the loaded image, pixel by pixel
    claimed,          \* the pixels inside the half-open rectangles of the zones applied
    zones_left,       \* apply_privacy_zones: zones the for loop has still to visit
    rpc,              \* position in apply_privacy_zones
    quality,          \* optimize_image: quality
    resize_factor,    \* optimize_image: resize_factor, in tenths
    iteration,        \* optimize_image: iteration
    new_size,         \* optimize_image: new_size, the size of the file last saved
    current_size,     \* optimize_image: the size of the screenshot file passed in
    floor_size,       \* the encoded size at the lowest quality and scale 0.3
    max_size_bytes,   \* optimize_image: max_size_bytes
    warned,           \* optimize_image: logger.warning was called
    saved,            \* quality and resize_factor of the file last saved
    opc               \* position in optimize_image

\* what one _perform_capture call and one idle evaluation are followed by
tick == <<ppc, screenshot, temp_files, calls, transmitted, at_entry, ended,
          ticks, idle_reading, seen>>

\* the locals of one apply_privacy_zones call
redactor == <<img, claimed, zones_left, rpc>>

\* the locals of one optimize_image call
compressor == <<quality, resize_factor, iteration, new_size, current_size,
                floor_size, max_size_bytes, warned, saved, opc>>

\* PillowImageProcessor at work
processor == <<redactor, compressor>>

vars == <<active_session, session, capture_thread, stop_event, lock, nextId,
          wpc, wstart, cpc, last, now, config, tick, processor>>

engine == <<active_session, session, capture_thread, stop_event, lock, nextId,
            wpc, wstart>>

\* ------------------------------------------------------------- the Session
\* Only the object self._active_session refers to is kept: the engine reaches
\* a Session through the slot alone, so an object the slot has dropped is
\* never read or written again.
NoSession == [id |-> None]

\* start_session, lines 112-123
MonitoringSession(id, started, interval) ==
    [id |-> id,
     started_at |-> started,
     interval_seconds |-> interval,
     is_active |-> TRUE,
     capture_count |-> 0,
     last_capture_at |-> None,
     paused_at |-> None,
     last_change_detected_at |-> None,
     previous_screenshot_hash |-> None]

\* Thread.is_alive(); no thread (None) is not alive
Alive(w) == IF w = None THEN FALSE ELSE wpc[w] \notin {"unborn", "done"}

\* variant: nobody waits for the lock
LockFreeAlways == TRUE

\* self._lock can be acquired
LockFree == lock = NoHolder

\* A call's return: the operation, its argument, the outcome ("ok" or the
\* error raised) and the value returned.
Returned(op, arg, res, val) == [op |-> op, arg |-> arg, res |-> res, val |-> val]

\* A step that returns nothing to a caller.
NoReturn == Returned("none", None, "none", None)

\* no screenshot has been captured
NoScreenshot == [file_path |-> None]

\* no artifact has been hashed or transmitted
NothingSeen == [captured |-> None, first |-> None, sent |-> None]

\* no _perform_capture call has begun and no idle reading has been taken
TickInit ==
    /\ ppc = "idle"
    /\ screenshot = NoScreenshot
    /\ temp_files = {}
    /\ calls = <<>>
    /\ transmitted = 0
    /\ at_entry = NoSession
    /\ ended = "none"
    /\ ticks = 0
    /\ idle_reading = None
    /\ seen = NothingSeen

\* optimize_image has not saved a file yet
NothingSaved == [quality |-> 0, resize_factor |-> 0]

\* no apply_privacy_zones call is under way
RedactorIdle ==
    /\ img = <<>>
    /\ claimed = {}
    /\ zones_left = 0
    /\ rpc = "idle"

\* no optimize_image call is under way
CompressorIdle ==
    /\ quality = 0
    /\ resize_factor = 0
    /\ iteration = 0
    /\ new_size = 0
    /\ current_size = 0
    /\ floor_size = 0
    /\ max_size_bytes = 0
    /\ warned = FALSE
    /\ saved = NothingSaved
    /\ opc = "idle"

\* no PillowImageProcessor call is under way
ProcessorInit == RedactorIdle /\ CompressorIdle

\* a manager that has been constructed and never used, alone with the clock
EngineIdle ==
    /\ active_session = None
    /\ session = NoSession
    /\ capture_thread = None
    /\ stop_event = FALSE
    /\ lock = NoHolder
    /\ nextId = 1
    /\ wpc = [w \in Workers |-> "unborn"]
    /\ wstart = [w \in Workers |-> 0]
    /\ cpc = [c \in Callers |-> "idle"]
    /\ last = NoReturn
    /\ now = 0

Init ==
    /\ active_session = None
    /\ session = NoSession
    /\ capture_thread = None
    /\ stop_event = FALSE
    /\ lock = NoHolder
    /\ nextId = 1
    /\ wpc = [w \in Workers |-> "unborn"]
    /\ wstart = [w \in Workers |-> 0]
    /\ cpc = [c \in Callers |-> "idle"]
    /\ last = NoReturn
    /\ now = 0
    /\ config \in Configurations
    /\ TickInit
    /\ ProcessorInit

\* ------------------------------------------------------------ the callers
\* variant: no single-session test
AlreadyActiveNeverRejects == FALSE

\* start_session, line 94
AlreadyActive == active_session # None

\* start_session, lines 104-105
EffectiveInterval(a) == IF a = None THEN config.interval_seconds ELSE a

\* variant: an interval of 0 passes
InvalidIntervalAcceptsZero(i) == i < 0

\* start_session, line 108
InvalidInterval(i) == i <= 0

\* variant: the previous Session's identity is used again
FreshIdReused == IF nextId > 1 THEN nextId - 1 ELSE nextId

\* start_session, line 113: a fresh uuid4()
FreshId == nextId

\* variant: the event is not cleared
StopEventAfterStartKept == stop_event

\* start_session, line 126
StopEventAfterStart == FALSE

\* start_session, lines 92-137: caller c calls start_session(interval_seconds)
StartSession(c, interval_seconds) ==
    /\ cpc[c] = "idle"
    /\ LockFree
    /\ IF AlreadyActive
       THEN /\ last' = Returned("start", interval_seconds, "AlreadyActive", None)
            /\ UNCHANGED engine
       ELSE IF InvalidInterval(EffectiveInterval(interval_seconds))
       THEN /\ last' = Returned("start", interval_seconds, "InvalidInterval", None)
            /\ UNCHANGED engine
       ELSE /\ nextId <= MaxSessions
            /\ session' = MonitoringSession(FreshId, now,
                                          EffectiveInterval(interval_seconds))
            /\ active_session' = FreshId
            /\ stop_event' = StopEventAfterStart
            /\ capture_thread' = FreshId
            /\ wpc' = [wpc EXCEPT ![FreshId] = "init"]
            /\ nextId' = nextId + 1
            /\ last' = Returned("start", interval_seconds, "ok", FreshId)
            /\ UNCHANGED <<lock, wstart>>
    /\ UNCHANGED <<cpc, now, config, tick, processor>>

\* variant: the id is not compared
SessionNotFoundIgnoresId(id) == active_session = None

\* stop_session, line 150 (pause_session 184, resume_session 204)
SessionNotFound(id) == active_session = None \/ active_session # id

\* variant: the join is made inside the first with block, by a holder that
\* is no capture thread
LockDuringJoinKept(c) == 0 - (c + 1)

\* who holds the lock while stop_session waits in join (lines 161-163, after
\* the with block of lines 149-159: nobody)
LockDuringJoin(c) == NoHolder

\* stop_session, lines 149-159: the first critical section
StopSessionMark(c, session_id) ==
    /\ cpc[c] = "idle"
    /\ LockFree
    /\ IF SessionNotFound(session_id)
       THEN /\ last' = Returned("stop", None, "NotFound", None)
            /\ UNCHANGED <<session, stop_event, cpc, lock>>
       ELSE /\ session' = [session EXCEPT !.is_active = FALSE]
            /\ stop_event' = TRUE
            /\ cpc' = [cpc EXCEPT ![c] = "stop_join"]
            /\ lock' = LockDuringJoin(c)
            /\ last' = NoReturn
    /\ UNCHANGED <<active_session, capture_thread, nextId, wpc, wstart,
                   now, config, tick, processor>>

\* stop_session, lines 162-163: no thread, or a thread that has ended (join
\* returns at once)
StopSessionJoined(c) ==
    /\ cpc[c] = "stop_join"
    /\ ~Alive(capture_thread)
    /\ cpc' = [cpc EXCEPT ![c] = "stop_final"]
    /\ UNCHANGED <<engine, now, config, tick, processor>>
    /\ last' = NoReturn

\* stop_session, line 163: join(timeout=5.0) returns after 5 seconds with
\* the thread still alive (steps have no modelled length: any live thread
\* can outlast the wait)
StopSessionJoinTimeout(c) ==
    /\ cpc[c] = "stop_join"
    /\ Alive(capture_thread)
    /\ cpc' = [cpc EXCEPT ![c] = "stop_final"]
    /\ UNCHANGED <<engine, now, config, tick, processor>>
    /\ last' = NoReturn

\* variant: the slot is not cleared
ActiveSessionAfterStopKept == active_session

\* stop_session, line 170
ActiveSessionAfterStop == None

\* stop_session, lines 165-171: the second critical section. Line 168 reads
\* self._active_session.capture_count, an AttributeError when the slot is None.
StopSessionClear(c) ==
    /\ cpc[c] = "stop_final"
    /\ LockFree
    /\ IF active_session = None
       THEN /\ last' = Returned("stop", None, "AttributeError", None)
            /\ UNCHANGED <<active_session, session, capture_thread>>
       ELSE /\ active_session' = ActiveSessionAfterStop
            /\ session' = IF active_session' = None THEN NoSession ELSE session
            /\ capture_thread' = None
            /\ last' = Returned("stop", None, "ok", None)
    /\ cpc' = [cpc EXCEPT ![c] = "idle"]
    /\ UNCHANGED <<stop_event, lock, nextId, wpc, wstart, now, config, tick, processor>>

\* variant: every pause stamps the time anew
PausedAtAfterPauseAlwaysNow(p) == now

\* pause_session, lines 187-188
PausedAtAfterPause(p) == IF p = None THEN now ELSE p

\* pause_session, lines 183-191
PauseSession(c, session_id) ==
    /\ cpc[c] = "idle"
    /\ LockFree
    /\ IF SessionNotFound(session_id)
       THEN /\ last' = Returned("pause", None, "NotFound", None)
            /\ UNCHANGED session
       ELSE /\ session' = [session EXCEPT !.paused_at =
                              PausedAtAfterPause(@)]
            /\ last' = Returned("pause", None, "ok", None)
    /\ UNCHANGED <<active_session, capture_thread, stop_event, lock, nextId, wpc,
                   wstart, cpc, now, config, tick, processor>>

\* resume_session, lines 207-208
PausedAtAfterResume(p) == None

\* resume_session, lines 203-211
ResumeSession(c, session_id) ==
    /\ cpc[c] = "idle"
    /\ LockFree
    /\ IF SessionNotFound(session_id)
       THEN /\ last' = Returned("resume", None, "NotFound", None)
            /\ UNCHANGED session
       ELSE /\ session' = [session EXCEPT !.paused_at =
                              PausedAtAfterResume(@)]
            /\ last' = Returned("resume", None, "ok", None)
    /\ UNCHANGED <<active_session, capture_thread, stop_event, lock, nextId, wpc,
                   wstart, cpc, now, config, tick, processor>>

\* get_active_session, lines 220-221
GetActiveSession(c) ==
    /\ cpc[c] = "idle"
    /\ LockFree
    /\ last' = Returned("get", None, "ok", active_session)
    /\ UNCHANGED <<engine, cpc, now, config, tick, processor>>

\* ------------------------------------------------------ the capture thread
\* _capture_loop, lines 229-236: the thread starts, reads the configuration
\* and takes its own session_start.
CaptureLoopBegin(w) ==
    /\ wpc[w] = "init"
    /\ wstart' = [wstart EXCEPT ![w] = now]
    /\ wpc' = [wpc EXCEPT ![w] = "top"]
    /\ UNCHANGED <<active_session, session, capture_thread, stop_event, lock,
                   nextId, cpc, now, config, tick, processor>>
    /\ last' = NoReturn

\* _capture_loop, line 239: the loop condition, read without the lock
CaptureLoopTest(w) ==
    /\ wpc[w] = "top"
    /\ wpc' = [wpc EXCEPT ![w] = IF stop_event THEN "done" ELSE "lockwait"]
    /\ UNCHANGED <<active_session, session, capture_thread, stop_event, lock,
                   nextId, wstart, cpc, now, config, tick, processor>>
    /\ last' = NoReturn

\* variant: the limit is not applied to a paused Session
MaxDurationReachedUnlessPaused(w) ==
    /\ config.max_duration_minutes > 0
    /\ now - wstart[w] >= config.max_duration_minutes
    /\ session.paused_at = None

\* _capture_loop, lines 245-247
MaxDurationReached(w) ==
    /\ config.max_duration_minutes > 0
    /\ now - wstart[w] >= config.max_duration_minutes

\* variant: no test for a disabled policy or a missing reading
MaybeUpdateIdlePauseUnguarded(paused_at, idle_pause_minutes, idle_seconds) ==
    IF idle_seconds >= idle_pause_minutes * 60 /\ paused_at = None
    THEN now
    ELSE IF idle_seconds < idle_pause_minutes * 60 /\ paused_at # None
    THEN None
    ELSE paused_at

\* variant: an idle reading stamps the pause anew
MaybeUpdateIdlePauseRestamps(paused_at, idle_pause_minutes, idle_seconds) ==
    IF idle_pause_minutes <= 0 \/ idle_seconds = None
    THEN paused_at
    ELSE IF idle_seconds >= idle_pause_minutes * 60
    THEN now
    ELSE None

\* variant: a missing reading counts as activity
MaybeUpdateIdlePauseMissingIsActive(paused_at, idle_pause_minutes, idle_seconds) ==
    IF idle_pause_minutes <= 0
    THEN paused_at
    ELSE IF idle_seconds # None /\ idle_seconds >= idle_pause_minutes * 60
            /\ paused_at = None
    THEN now
    ELSE IF (idle_seconds = None \/ idle_seconds < idle_pause_minutes * 60)
            /\ paused_at # None
    THEN None
    ELSE paused_at

\* _maybe_update_idle_pause, lines 348-366: the new paused_at
MaybeUpdateIdlePause(paused_at, idle_pause_minutes, idle_seconds) ==
    IF idle_pause_minutes <= 0 \/ idle_seconds = None
    THEN paused_at
    ELSE IF idle_seconds >= idle_pause_minutes * 60 /\ paused_at = None
    THEN now
    ELSE IF idle_seconds < idle_pause_minutes * 60 /\ paused_at # None
    THEN None
    ELSE paused_at

\* variant: the capture is made after the with block has been left
LockDuringTickReleased(w) == NoHolder

\* who holds the lock from line 240 to the end of the with block at line 268
LockDuringTick(w) == w

\* variant: a paused Session is captured all the same
PositionAfterIdlePolicyAlwaysCaptures(paused_at) == "tick"

\* _capture_loop, lines 258-265: a paused Session is slept over, not captured
PositionAfterIdlePolicy(paused_at) ==
    IF paused_at # None THEN "paused_sleep" ELSE "tick"

\* _capture_loop, lines 240-262: the lock is taken; no Session, max duration,
\* the idle policy, and the choice between the paused sleep and a capture.
CaptureLoopEnter(w) ==
    /\ wpc[w] = "lockwait"
    /\ LockFree
    /\ IF active_session = None
       THEN /\ wpc' = [wpc EXCEPT ![w] = "done"]
            /\ UNCHANGED <<session, stop_event, lock>>
       ELSE IF MaxDurationReached(w)
       THEN /\ session' = [session EXCEPT !.is_active = FALSE]
            /\ stop_event' = TRUE
            /\ wpc' = [wpc EXCEPT ![w] = "done"]
            /\ UNCHANGED lock
       ELSE \E idle_seconds \in IdleReadings :
              LET p == MaybeUpdateIdlePause(session.paused_at,
                                            config.idle_pause_minutes, idle_seconds)
              IN /\ session' = [session EXCEPT !.paused_at = p]
                 /\ wpc' = [wpc EXCEPT ![w] = PositionAfterIdlePolicy(p)]
                 /\ lock' = LockDuringTick(w)
                 /\ UNCHANGED stop_event
    /\ UNCHANGED <<active_session, capture_thread, nextId, wstart,
                   cpc, now, config, tick, processor>>
    /\ last' = NoReturn

\* _capture_loop, lines 257 and 274-277: the idle_seconds_provider call made by
\* _maybe_update_idle_pause (line 351, reached when idle_pause_minutes > 0)
\* raises; the call is outside the try of line 264, so the exception leaves
\* the with block and the loop, is logged at line 275, and the thread ends
CaptureLoopIdleProviderRaises(w) ==
    /\ wpc[w] = "lockwait"
    /\ LockFree
    /\ active_session # None
    /\ ~MaxDurationReached(w)
    /\ config.idle_pause_minutes > 0
    /\ wpc' = [wpc EXCEPT ![w] = "done"]
    /\ UNCHANGED <<active_session, session, capture_thread, stop_event, lock,
                   nextId, wstart, cpc, now, config, tick, processor>>
    /\ last' = NoReturn

\* _capture_loop, lines 260-261: time.sleep(1) inside the with block, then
\* continue leaves the block and releases the lock.
CaptureLoopPausedSleep(w) ==
    /\ wpc[w] = "paused_sleep"
    /\ lock' = NoHolder
    /\ wpc' = [wpc EXCEPT ![w] = "top"]
    /\ UNCHANGED <<active_session, session, capture_thread, stop_event,
                   nextId, wstart, cpc, now, config, tick, processor>>
    /\ last' = NoReturn

\* variant: the first digest is not stored
AfterDigestFirstNotStored(s, d) ==
    IF config.change_detection /\ s.previous_screenshot_hash # None
    THEN [s EXCEPT !.previous_screenshot_hash = d, !.last_change_detected_at = now]
    ELSE s

\* _perform_capture, lines 300-312: the digest step
AfterDigest(s, d) ==
    IF config.change_detection /\ s.previous_screenshot_hash # None
    THEN [s EXCEPT !.previous_screenshot_hash = d, !.last_change_detected_at = now]
    ELSE IF config.change_detection
    THEN [s EXCEPT !.previous_screenshot_hash = d]
    ELSE s

\* variant: a transmitted capture is not counted
AfterCountNothingCounted(s) == s

\* _perform_capture, line 331
AfterCount(s) == [s EXCEPT !.capture_count = @ + 1]

\* _perform_capture, line 332
AfterStamp(s) == [s EXCEPT !.last_capture_at = now]

\* _perform_capture, lines 331-332
AfterTransmit(s) == AfterStamp(AfterCount(s))

\* _perform_capture, lines 288-339: the Session after one capture whose
\* artifact has digest d. outcome: "capture_failed" (capture_full_screen or
\* the digest raised), "unchanged" is decided by the code, "step_failed" (the
\* redactor, the optimizer or the API client raised), "sent".
PerformCapture(s, d, outcome) ==
    IF outcome = "capture_failed"
    THEN s
    ELSE IF config.change_detection /\ s.previous_screenshot_hash # None
            /\ d = s.previous_screenshot_hash
    THEN s
    ELSE IF outcome = "step_failed"
    THEN AfterDigest(s, d)
    ELSE AfterTransmit(AfterDigest(s, d))

\* variant: the interval sleep happens inside the with block
LockDuringIntervalSleepKept(w) == w

\* who holds the lock while the thread sleeps its interval (line 270: nobody)
LockDuringIntervalSleep(w) == NoHolder

\* variant: an exception of _perform_capture ends the loop
PositionAfterTickFailureEnds(outcome) == IF outcome = "sent" THEN "sleep" ELSE "done"

\* _capture_loop, lines 264-272: whatever _perform_capture did, raised
\* exceptions included (caught at line 266), the thread goes on to its sleep
PositionAfterTick(outcome) == "sleep"

\* _capture_loop, lines 264-272: one capture under the lock (its failure is
\* caught and logged), the lock is released, the interval sleep begins. The
\* sleep has no modelled length (CaptureLoopWake may follow at any time), so
\* the interval read at line 271 is not kept.
CaptureLoopTick(w) ==
    /\ wpc[w] = "tick"
    /\ \E d \in Digests : \E outcome \in {"capture_failed", "step_failed", "sent"} :
          /\ outcome = "sent" => session.capture_count < MaxCaptures
          /\ session' = PerformCapture(session, d, outcome)
          /\ wpc' = [wpc EXCEPT ![w] = PositionAfterTick(outcome)]
    /\ lock' = LockDuringIntervalSleep(w)
    /\ UNCHANGED <<active_session, capture_thread, stop_event,
                   nextId, wstart, cpc, now, config, tick, processor>>
    /\ last' = NoReturn

\* _perform_capture, lines 297 and 323: a capture or transmit call that does
\* not return; the thread stays inside the with block.
CaptureLoopBlocks(w) ==
    /\ wpc[w] = "tick"
    /\ wpc' = [wpc EXCEPT ![w] = "blocked"]
    /\ UNCHANGED <<active_session, session, capture_thread, stop_event, lock,
                   nextId, wstart, cpc, now, config, tick, processor>>
    /\ last' = NoReturn

\* _capture_loop, line 272: time.sleep(interval) ends
CaptureLoopWake(w) ==
    /\ wpc[w] = "sleep"
    /\ wpc' = [wpc EXCEPT ![w] = "top"]
    /\ UNCHANGED <<active_session, session, capture_thread, stop_event, lock,
                   nextId, wstart, cpc, now, config, tick, processor>>
    /\ last' = NoReturn

\* the wall clock advances
ClockTick ==
    /\ now < MaxTime
    /\ now' = now + 1
    /\ UNCHANGED <<engine, cpc, config, tick, processor>>
    /\ last' = NoReturn

Next ==
    \/ \E c \in Callers : \E i \in IntervalArgs : StartSession(c, i)
    \/ \E c \in Callers : \E id \in SessionIds : StopSessionMark(c, id)
    \/ \E c \in Callers : StopSessionJoined(c)
    \/ \E c \in Callers : StopSessionJoinTimeout(c)
    \/ \E c \in Callers : StopSessionClear(c)
    \/ \E c \in Callers : \E id \in SessionIds : PauseSession(c, id)
    \/ \E c \in Callers : \E id \in SessionIds : ResumeSession(c, id)
    \/ \E c \in Callers : GetActiveSession(c)
    \/ \E w \in Workers : CaptureLoopBegin(w)
    \/ \E w \in Workers : CaptureLoopTest(w)
    \/ \E w \in Workers : CaptureLoopEnter(w)
    \/ \E w \in Workers : CaptureLoopIdleProviderRaises(w)
    \/ \E w \in Workers : CaptureLoopPausedSleep(w)
    \/ \E w \in Workers : CaptureLoopTick(w)
    \/ \E w \in Workers : CaptureLoopBlocks(w)
    \/ \E w \in Workers : CaptureLoopWake(w)
    \/ ClockTick

Spec == Init /\ [][Next]_vars
\* ------------------------------------------- one _perform_capture, by steps
\* The capture thread of Session 1 is inside the with block and calls
\* _perform_capture up to MaxTicks times; each collaborator call is one step.
\* config.privacy and the change-detection flag are part of the configuration
\* the call reads (line 289 and the caller's line 234).
PipelineConfigurations ==
    {[interval_seconds |-> 1, max_duration_minutes |-> 0, idle_pause_minutes |-> 0,
      change_detection |-> cd, privacy_enabled |-> pe, privacy_zones |-> z] :
        cd \in BOOLEAN, pe \in BOOLEAN, z \in {0, 1}}

\* names mkstemp can give a temp file
TempPaths == 1..(2 * MaxTicks)

\* TempFileManager.create_temp_file: a name no existing file has
NewPath ==
    CHOOSE p \in TempPaths :
       p \notin temp_files /\ \A q \in TempPaths : q \notin temp_files => p <= q

PipelineInit ==
    /\ active_session = 1
    /\ session = MonitoringSession(1, 0, 1)
    /\ capture_thread = 1
    /\ stop_event = FALSE
    /\ lock = 1
    /\ nextId = 2
    /\ wpc = [w \in Workers |-> IF w = 1 THEN "tick" ELSE "unborn"]
    /\ wstart = [w \in Workers |-> 0]
    /\ cpc = [c \in Callers |-> "idle"]
    /\ last = NoReturn
    /\ now = 0
    /\ config \in PipelineConfigurations
    /\ TickInit
    /\ ProcessorInit

\* what no step of _perform_capture touches
PipelineFrame ==
    UNCHANGED <<active_session, capture_thread, stop_event, lock, nextId, wpc,
                wstart, cpc, last, now, config, idle_reading, processor>>

\* variant: redaction is never applied
RedactionConfiguredNever == FALSE

\* _perform_capture, line 315
RedactionConfigured == config.privacy_enabled /\ config.privacy_zones > 0

\* _perform_capture, lines 314-319: the step that follows the digest step
PositionBeforeRedaction == IF RedactionConfigured THEN "compared" ELSE "redacted"

\* _perform_capture, lines 300 and 310: the step that follows the capture
PositionAfterCapture ==
    IF config.change_detection THEN "captured" ELSE PositionBeforeRedaction

\* _perform_capture, lines 337-339: an exception leaves the call
Raised ==
    /\ ppc' = "idle"
    /\ ended' = "raised"
    /\ screenshot' = NoScreenshot

\* _perform_capture, lines 289-297: the call begins and capture_full_screen
\* returns a screenshot file with some content, or raises
CaptureFullScreen ==
    /\ ppc = "idle"
    /\ ticks < MaxTicks
    /\ active_session # None
    /\ ticks' = ticks + 1
    /\ at_entry' = session
    /\ calls' = <<"capture">>
    /\ \/ \E d \in Digests :
             /\ screenshot' = [file_path |-> NewPath, privacy_zones_applied |-> FALSE,
                               digest |-> d]
             /\ temp_files' = temp_files \cup {NewPath}
             /\ seen' = [seen EXCEPT !.captured = d]
             /\ ppc' = PositionAfterCapture
             /\ ended' = "running"
       \/ Raised /\ UNCHANGED <<temp_files, seen>>
    /\ UNCHANGED <<session, transmitted>>
    /\ PipelineFrame

\* variant: an equal digest does not end the call
UnchangedNeverSkips(s, d) == FALSE

\* _perform_capture, lines 300-303: the artifact shows what the last one did
Unchanged(s, d) ==
    /\ config.change_detection
    /\ s.previous_screenshot_hash # None
    /\ d = s.previous_screenshot_hash

\* the digest of the first artifact the Session has had hashed is kept
FirstSeen(d) == IF seen.first = None THEN [seen EXCEPT !.first = d] ELSE seen

\* _perform_capture, lines 300-312: calculate_image_hash returns the digest
\* of the captured file or raises; an unchanged artifact is cleaned up (line
\* 305, which can raise) and the call returns
CalculateImageHash ==
    /\ ppc = "captured"
    /\ \/ /\ Unchanged(session, screenshot.digest)
          /\ calls' = calls \o <<"digest", "cleanup">>
          /\ \/ /\ temp_files' = temp_files \ {screenshot.file_path}
                /\ ppc' = "idle"
                /\ ended' = "skipped"
                /\ screenshot' = NoScreenshot
             \/ Raised /\ UNCHANGED temp_files
          /\ UNCHANGED <<session, seen>>
       \/ /\ ~Unchanged(session, screenshot.digest)
          /\ calls' = calls \o <<"digest">>
          /\ session' = AfterDigest(session, screenshot.digest)
          /\ seen' = FirstSeen(screenshot.digest)
          /\ ppc' = PositionBeforeRedaction
          /\ UNCHANGED <<screenshot, temp_files, ended>>
       \/ /\ calls' = calls \o <<"digest">>
          /\ Raised
          /\ UNCHANGED <<session, temp_files, seen>>
    /\ UNCHANGED <<transmitted, at_entry, ticks>>
    /\ PipelineFrame

\* PillowImageProcessor.apply_privacy_zones and optimize_image: the processed
\* image is a new temp file and the old file is cleaned up
Processed(applied) == [file_path |-> NewPath, privacy_zones_applied |-> applied]

\* _perform_capture, line 316: apply_privacy_zones returns the redacted
\* screenshot, or raises before or after it created the new file
ApplyPrivacyZones ==
    /\ ppc = "compared"
    /\ calls' = calls \o <<"redact">>
    /\ \/ /\ screenshot' = Processed(TRUE)
          /\ temp_files' = (temp_files \cup {NewPath}) \ {screenshot.file_path}
          /\ ppc' = "redacted"
          /\ UNCHANGED ended
       \/ Raised /\ UNCHANGED temp_files
       \/ Raised /\ temp_files' = temp_files \cup {NewPath}
    /\ UNCHANGED <<session, transmitted, at_entry, ticks, seen>>
    /\ PipelineFrame

\* _perform_capture, line 319: optimize_image returns the screenshot as it is
\* (within the size limit) or a re-encoded one, or raises before or after it
\* created the new file
OptimizeImage ==
    /\ ppc = "redacted"
    /\ calls' = calls \o <<"compress">>
    /\ \/ /\ ppc' = "optimized"
          /\ UNCHANGED <<screenshot, temp_files, ended>>
       \/ /\ screenshot' = Processed(screenshot.privacy_zones_applied)
          /\ temp_files' = (temp_files \cup {NewPath}) \ {screenshot.file_path}
          /\ ppc' = "optimized"
          /\ UNCHANGED ended
       \/ Raised /\ UNCHANGED temp_files
       \/ Raised /\ temp_files' = temp_files \cup {NewPath}
    /\ UNCHANGED <<session, transmitted, at_entry, ticks, seen>>
    /\ PipelineFrame

\* _perform_capture, lines 322-331: send_multimodal_prompt returns and the
\* capture is counted, or it raises
SendMultimodalPrompt ==
    /\ ppc = "optimized"
    /\ calls' = calls \o <<"transmit">>
    /\ \/ /\ transmitted' = transmitted + 1
          /\ session' = AfterCount(session)
          /\ seen' = [seen EXCEPT !.sent = seen.captured]
          /\ ppc' = "counted"
          /\ UNCHANGED <<screenshot, ended>>
       \/ Raised /\ UNCHANGED <<session, transmitted, seen>>
    /\ UNCHANGED <<temp_files, at_entry, ticks>>
    /\ PipelineFrame

\* _perform_capture, line 332: the time of the capture is stored
StampLastCapture ==
    /\ ppc = "counted"
    /\ session' = AfterStamp(session)
    /\ ppc' = "sent"
    /\ UNCHANGED <<screenshot, temp_files, calls, transmitted, at_entry, ended,
                   ticks, seen>>
    /\ PipelineFrame

\* a caller reads capture_count and last_capture_at of the Session object it
\* got from start_session (line 137) or get_active_session (line 221); the
\* object is read without the lock
ReadSessionFields(c) ==
    /\ session # NoSession
    /\ last' = Returned("read", c, "ok",
                        [capture_count |-> session.capture_count,
                         last_capture_at |-> session.last_capture_at])
    /\ UNCHANGED <<engine, cpc, now, config, tick, processor>>

\* _perform_capture, line 335: cleanup_temp_file removes the transmitted
\* file, or raises TempFileError
CleanupTempFile ==
    /\ ppc = "sent"
    /\ calls' = calls \o <<"cleanup">>
    /\ \/ /\ temp_files' = temp_files \ {screenshot.file_path}
          /\ ppc' = "idle"
          /\ ended' = "sent"
          /\ screenshot' = NoScreenshot
       \/ Raised /\ UNCHANGED temp_files
    /\ UNCHANGED <<session, transmitted, at_entry, ticks, seen>>
    /\ PipelineFrame

PipelineNext ==
    \/ CaptureFullScreen
    \/ CalculateImageHash
    \/ ApplyPrivacyZones
    \/ OptimizeImage
    \/ SendMultimodalPrompt
    \/ StampLastCapture
    \/ CleanupTempFile
    \/ \E c \in Callers : ReadSessionFields(c)
    \/ ClockTick

PipelineSpec == PipelineInit /\ [][PipelineNext]_vars

\* ------------------------------------------------ the idle policy by itself
\* The worker of Session 1 evaluates the idle policy again and again (line
\* 257) while callers pause and resume the Session and the clock advances.
IdleThresholds == {0 - 1, 0, 1, 2}       \* config.monitoring.idle_pause_minutes

\* idle_seconds_provider() results, around the thresholds in seconds
IdleProbeReadings == {None, 0, 59, 60, 61, 119, 120}

IdleInit ==
    /\ active_session = 1
    /\ session = MonitoringSession(1, 0, 1)
    /\ capture_thread = 1
    /\ stop_event = FALSE
    /\ lock = NoHolder
    /\ nextId = 2
    /\ wpc = [w \in Workers |-> IF w = 1 THEN "lockwait" ELSE "unborn"]
    /\ wstart = [w \in Workers |-> 0]
    /\ cpc = [c \in Callers |-> "idle"]
    /\ last = NoReturn
    /\ now = 0
    /\ config \in {[interval_seconds |-> 1, max_duration_minutes |-> 0,
                    idle_pause_minutes |-> t, change_detection |-> FALSE] :
                      t \in IdleThresholds}
    /\ TickInit
    /\ ProcessorInit

\* _capture_loop, lines 240-262: the capture thread takes the lock, makes one
\* _maybe_update_idle_pause call (line 257) and goes on to the paused sleep
\* or to the capture
IdlePauseEvaluation ==
    /\ wpc[capture_thread] = "lockwait"
    /\ LockFree
    /\ active_session # None
    /\ \E reading \in IdleProbeReadings :
          LET p == MaybeUpdateIdlePause(session.paused_at,
                                        config.idle_pause_minutes, reading)
          IN /\ idle_reading' = reading
             /\ session' = [session EXCEPT !.paused_at = p]
             /\ wpc' = [wpc EXCEPT ![capture_thread] = PositionAfterIdlePolicy(p)]
    /\ lock' = LockDuringTick(capture_thread)
    /\ at_entry' = session
    /\ last' = NoReturn
    /\ UNCHANGED <<active_session, capture_thread, stop_event, nextId,
                   wstart, cpc, now, config, ppc, screenshot, temp_files, calls,
                   transmitted, ended, ticks, seen, processor>>

IdleNext ==
    \/ IdlePauseEvaluation
    \/ \E c \in Callers : \E id \in SessionIds : PauseSession(c, id)
    \/ \E c \in Callers : \E id \in SessionIds : ResumeSession(c, id)
    \/ \E w \in Workers : CaptureLoopPausedSleep(w)
    \/ \E w \in Workers : CaptureLoopTick(w)
    \/ \E w \in Workers : CaptureLoopWake(w)
    \/ \E w \in Workers : CaptureLoopTest(w)
    \/ ClockTick

IdleSpec == IdleInit /\ [][IdleNext]_vars

\* ------------------------------------- apply_privacy_zones, pixel by pixel
\* One PillowImageProcessor.apply_privacy_zones(screenshot, zones) call on a
\* screenshot of monitor 0; the zones of the list are drawn one per iteration
\* of the for loop.
Pixels == (0..(ImageSide - 1)) \X (0..(ImageSide - 1))

\* PrivacyZone (entities.py): x, y >= 0, width, height > 0, monitor optional
Zones ==
    [x : 0..(ImageSide - 2), y : 0..(ImageSide - 2), width : 1..2, height : 1..2,
     monitor : {None, 0, 1}]

\* ImageDraw.rectangle([(x0, y0), (x1, y1)], fill='black'): Pillow fills the
\* box including both corner points; a pixel outside the image does not exist
DrawRectangle(im, x0, y0, x1, y1) ==
    [p \in Pixels |->
        IF x0 <= p[1] /\ p[1] <= x1 /\ y0 <= p[2] /\ p[2] <= y1
        THEN "black" ELSE im[p]]

\* the pixels of the image inside [x, x+width) x [y, y+height)
HalfOpen(zone) ==
    {p \in Pixels : /\ zone.x <= p[1] /\ p[1] < zone.x + zone.width
                    /\ zone.y <= p[2] /\ p[2] < zone.y + zone.height}

\* apply_privacy_zones, line 77: the zone is scoped to another monitor
OtherMonitor(zone) ==
    zone.monitor # None /\ zone.monitor # screenshot.source_monitor

RedactInit ==
    /\ EngineIdle
    /\ config \in Configurations
    /\ ppc = "idle"
    /\ screenshot = [file_path |-> 1, privacy_zones_applied |-> FALSE,
                     source_monitor |-> 0, optimized_size_bytes |-> None]
    /\ temp_files \in {{1}, {}}
    /\ calls = <<>>
    /\ transmitted = 0
    /\ at_entry = NoSession
    /\ ended = "none"
    /\ ticks = 0
    /\ idle_reading = None
    /\ seen = NothingSeen
    /\ img = <<>>
    /\ claimed = {}
    /\ zones_left \in 0..MaxZones
    /\ rpc = "called"
    /\ CompressorIdle

\* what no step of apply_privacy_zones touches
RedactFrame ==
    UNCHANGED <<engine, cpc, last, now, config, ppc, calls, transmitted, at_entry,
                ended, ticks, idle_reading, seen, compressor>>

\* apply_privacy_zones, lines 58-59: the screenshot file is gone
ApplyZonesFileMissing ==
    /\ rpc = "called"
    /\ screenshot.file_path \notin temp_files
    /\ rpc' = "raised"
    /\ UNCHANGED <<screenshot, temp_files, img, claimed, zones_left>>
    /\ RedactFrame

\* variant: the screenshot is returned as it came
AfterNoZonesUnmarked(s) == s

\* apply_privacy_zones, lines 64-65
AfterNoZones(s) == [s EXCEPT !.privacy_zones_applied = TRUE]

\* apply_privacy_zones, lines 61-65: an empty zone list
ApplyZonesEmpty ==
    /\ rpc = "called"
    /\ screenshot.file_path \in temp_files
    /\ zones_left = 0
    /\ screenshot' = AfterNoZones(screenshot)
    /\ rpc' = "returned"
    /\ UNCHANGED <<temp_files, img, claimed, zones_left>>
    /\ RedactFrame

\* apply_privacy_zones, lines 67-72: the image is loaded
ApplyZonesOpen ==
    /\ rpc = "called"
    /\ screenshot.file_path \in temp_files
    /\ zones_left > 0
    /\ img' = [p \in Pixels |-> "original"]
    /\ rpc' = "drawing"
    /\ UNCHANGED <<screenshot, temp_files, claimed, zones_left>>
    /\ RedactFrame

\* apply_privacy_zones, lines 74-86: one iteration of the for loop
ApplyZonesDraw ==
    /\ rpc = "drawing"
    /\ zones_left > 0
    /\ zones_left' = zones_left - 1
    /\ \E zone \in Zones :
          IF OtherMonitor(zone)
          THEN UNCHANGED <<img, claimed>>
          ELSE /\ img' = DrawRectangle(img, zone.x, zone.y,
                                       zone.x + zone.width, zone.y + zone.height)
               /\ claimed' = claimed \cup HalfOpen(zone)
    /\ UNCHANGED <<screenshot, temp_files, rpc>>
    /\ RedactFrame

\* apply_privacy_zones, lines 88-126: a temp file is created, the image saved
\* to it, the old file cleaned up and the new Screenshot returned; a step that
\* raises ends the call in ImageProcessingError (line 129), before the new
\* file exists or with the new file left behind
ApplyZonesSave ==
    /\ rpc = "drawing"
    /\ zones_left = 0
    /\ \/ /\ \E size \in 0..MaxSize :
                screenshot' = [screenshot EXCEPT !.file_path = NewPath,
                                                 !.privacy_zones_applied = TRUE,
                                                 !.optimized_size_bytes = size]
          /\ temp_files' = (temp_files \cup {NewPath}) \ {screenshot.file_path}
          /\ rpc' = "returned"
       \/ /\ rpc' = "raised"
          /\ temp_files' \in {temp_files, temp_files \cup {NewPath}}
          /\ UNCHANGED screenshot
    /\ UNCHANGED <<img, claimed, zones_left>>
    /\ RedactFrame

RedactNext ==
    \/ ApplyZonesFileMissing
    \/ ApplyZonesEmpty
    \/ ApplyZonesOpen
    \/ ApplyZonesDraw
    \/ ApplyZonesSave

RedactSpec == RedactInit /\ [][RedactNext]_vars

\* --------------------------------------------- optimize_image, step by step
\* One PillowImageProcessor.optimize_image(screenshot, max_size_mb) call.
\* Sizes are whole units; resize_factor is kept in tenths (1.0 is 10). Each
\* save yields a size no larger than the save before it, quality or scale
\* having gone down, and no smaller than floor_size, the size the image has at
\* the lowest quality and scale 0.3.
InitialQuality == 85      \* quality = 85
FullScale == 10           \* resize_factor = 1.0
max_iterations == 10      \* max_iterations = 10
QualityFloor == 50        \* if quality > 50
QualityStep == 10         \* quality -= 10
ScaleStep == 1            \* resize_factor -= 0.1
ScaleFloor == 3           \* if resize_factor < 0.3

CompressInit ==
    /\ EngineIdle
    /\ config \in Configurations
    /\ ppc = "idle"
    /\ current_size \in 1..MaxSize
    /\ screenshot = [file_path |-> 1, privacy_zones_applied |-> FALSE,
                     source_monitor |-> 0, optimized_size_bytes |-> None]
    /\ temp_files \in {{1}, {}}
    /\ calls = <<>>
    /\ transmitted = 0
    /\ at_entry = NoSession
    /\ ended = "none"
    /\ ticks = 0
    /\ idle_reading = None
    /\ seen = NothingSeen
    /\ RedactorIdle
    /\ quality = 0
    /\ resize_factor = 0
    /\ iteration = 0
    /\ new_size = 0
    /\ floor_size \in 1..MaxSize
    /\ max_size_bytes \in 0..MaxSize
    /\ warned = FALSE
    /\ saved = NothingSaved
    /\ opc = "called"

\* what no step of optimize_image touches
CompressFrame ==
    UNCHANGED <<engine, cpc, last, now, config, ppc, calls, transmitted, at_entry,
                ended, ticks, idle_reading, seen, redactor, current_size,
                floor_size, max_size_bytes>>

\* optimize_image, lines 145-146: the screenshot file is gone
OptimizeFileMissing ==
    /\ opc = "called"
    /\ screenshot.file_path \notin temp_files
    /\ opc' = "raised"
    /\ UNCHANGED <<screenshot, temp_files, quality, resize_factor, iteration,
                   new_size, warned, saved>>
    /\ CompressFrame

\* optimize_image, line 153
WithinLimit == current_size <= max_size_bytes

\* optimize_image, lines 149-156: the file is within the limit already
OptimizeWithinLimit ==
    /\ opc = "called"
    /\ screenshot.file_path \in temp_files
    /\ WithinLimit
    /\ screenshot' = [screenshot EXCEPT !.optimized_size_bytes = current_size]
    /\ opc' = "returned"
    /\ UNCHANGED <<temp_files, quality, resize_factor, iteration, new_size,
                   warned, saved>>
    /\ CompressFrame

\* optimize_image, lines 158-177: the image is loaded, the settings start at
\* quality 85 and full scale, and the temp file of the result is created
OptimizeBegin ==
    /\ opc = "called"
    /\ screenshot.file_path \in temp_files
    /\ ~WithinLimit
    /\ quality' = InitialQuality
    /\ resize_factor' = FullScale
    /\ iteration' = 0
    /\ temp_files' = temp_files \cup {NewPath}
    /\ opc' = "loop"
    /\ UNCHANGED <<screenshot, new_size, warned, saved>>
    /\ CompressFrame

\* variant: a loop without a cap
LoopGoesOnUncapped == TRUE

\* optimize_image, line 178: for iteration in range(max_iterations)
LoopGoesOn == iteration < max_iterations

\* the sizes a save with lower settings than the save before can yield
SizesNow == floor_size..(IF iteration = 0 THEN MaxSize ELSE new_size)

\* optimize_image, lines 178-222: one iteration of the for loop: resize, save,
\* compare with the limit, then lower the quality or the scale
OptimizeIteration ==
    /\ opc = "loop"
    /\ LoopGoesOn
    /\ \E size \in SizesNow :
          /\ new_size' = size
          /\ saved' = [quality |-> quality, resize_factor |-> resize_factor]
          /\ IF size <= max_size_bytes
             THEN /\ opc' = "saved"
                  /\ UNCHANGED <<quality, resize_factor, iteration, warned>>
             ELSE IF quality > QualityFloor
             THEN /\ quality' = quality - QualityStep
                  /\ iteration' = iteration + 1
                  /\ opc' = "loop"
                  /\ UNCHANGED <<resize_factor, warned>>
             ELSE /\ resize_factor' = resize_factor - ScaleStep
                  /\ IF resize_factor - ScaleStep < ScaleFloor
                     THEN /\ warned' = TRUE
                          /\ opc' = "saved"
                          /\ UNCHANGED iteration
                     ELSE /\ iteration' = iteration + 1
                          /\ opc' = "loop"
                          /\ UNCHANGED warned
                  /\ UNCHANGED quality
    /\ UNCHANGED <<screenshot, temp_files>>
    /\ CompressFrame

\* optimize_image, line 178: range(max_iterations) is used up
OptimizeLoopEnds ==
    /\ opc = "loop"
    /\ ~LoopGoesOn
    /\ opc' = "saved"
    /\ UNCHANGED <<screenshot, temp_files, quality, resize_factor, iteration,
                   new_size, warned, saved>>
    /\ CompressFrame

\* optimize_image, line 174: new_path, the temp file created last
NewestPath == CHOOSE p \in temp_files : \A q \in temp_files : q <= p

\* optimize_image, lines 224-249: the Screenshot of the file last saved is
\* built, the old file cleaned up and the result returned; a step that raises
\* ends the call in ImageProcessingError
OptimizeReturn ==
    /\ opc = "saved"
    /\ \/ /\ screenshot' = [screenshot EXCEPT !.file_path = NewestPath,
                                              !.optimized_size_bytes = new_size]
          /\ temp_files' = temp_files \ {screenshot.file_path}
          /\ opc' = "returned"
       \/ /\ opc' = "raised"
          /\ UNCHANGED <<screenshot, temp_files>>
    /\ UNCHANGED <<quality, resize_factor, iteration, new_size, warned, saved>>
    /\ CompressFrame

CompressNext ==
    \/ OptimizeFileMissing
    \/ OptimizeWithinLimit
    \/ OptimizeBegin
    \/ OptimizeIteration
    \/ OptimizeLoopEnds
    \/ OptimizeReturn

CompressSpec == CompressInit /\ [][CompressNext]_vars

\* optimize_image is straight-line code run by one thread: a call that can
\* take its next step takes it
CompressLiveSpec == CompressSpec /\ WF_vars(CompressNext)

\* ================================================================ claims
\* The interval a start call uses, from its argument and the configuration.
IntervalOf(i) == IF i = None THEN config.interval_seconds ELSE i

\* The Session a successful start_session(i) creates with identity id.
FreshSession(id, i) ==
    [id |-> id, started_at |-> now, interval_seconds |-> IntervalOf(i),
     is_active |-> TRUE, capture_count |-> 0, last_capture_at |-> None,
     paused_at |-> None, last_change_detected_at |-> None,
     previous_screenshot_hash |-> None]

\* C1: a start issued while a Session exists fails with AlreadyActive and
\* leaves the Session, the cancellation signal and every worker as they were;
\* a start succeeds only on an empty engine and leaves the engine occupied,
\* so of two concurrent starts on an empty engine exactly one succeeds.
C1_SingleSession ==
    [][\A c \in Callers : \A i \in IntervalArgs :
          StartSession(c, i) =>
             /\ active_session # None =>
                   /\ last' = Returned("start", i, "AlreadyActive", None)
                   /\ UNCHANGED engine
             /\ last'.res = "ok" => active_session = None /\ active_session' # None
             /\ (active_session = None /\ IntervalOf(i) > 0) => last'.res = "ok"]_vars

C1_Witness ==
    /\ last.op = "start" /\ last.res = "AlreadyActive"
    /\ active_session # None /\ session.capture_count > 0
    /\ Alive(capture_thread)

\* C2: at most one capture thread is alive at any instant.
C2_AtMostOneWorker == Cardinality({w \in Workers : Alive(w)}) <= 1

\* C3: a stop of the current Session marks it inactive and raises the
\* cancellation signal in one critical section that leaves the slot set and
\* the lock free, its wait for the worker can end whoever holds the lock, and
\* a stop that returns successfully leaves the slot unset.
C3_StopOrder ==
    [][/\ \A c \in Callers : \A id \in SessionIds :
             (StopSessionMark(c, id) /\ active_session = id) =>
                /\ lock = NoHolder /\ lock' = NoHolder
                /\ session' = [session EXCEPT !.is_active = FALSE]
                /\ stop_event'
                /\ active_session' = id
                /\ cpc'[c] = "stop_join"
       /\ \A c \in Callers :
             cpc[c] = "stop_join" =>
                ENABLED (StopSessionJoined(c) \/ StopSessionJoinTimeout(c))
       /\ \A c \in Callers :
             (StopSessionJoined(c) \/ StopSessionJoinTimeout(c)) =>
                UNCHANGED engine /\ cpc'[c] = "stop_final"
       /\ \A c \in Callers :
             (StopSessionClear(c) /\ last'.res = "ok") =>
                /\ cpc[c] = "stop_final"
                /\ active_session' = None]_vars

C3_Witness ==
    /\ last.op = "stop" /\ last.res = "ok"
    /\ active_session = None
    /\ \E w \in Workers : wpc[w] = "sleep"
    /\ \A c \in Callers : cpc[c] = "idle"

\* C4: a stop whose bounded wait is over is never held up by a worker that is
\* blocked inside a pipeline tick.
C4_StopProceeds ==
    \A c \in Callers :
       cpc[c] = "stop_final" => ~(\E w \in Workers : wpc[w] = "blocked" /\ lock = w)

\* C5: stop, pause and resume fail with NotFound exactly when no Session
\* exists or the id is not the current Session's, and then change nothing.
C5_NotFound ==
    [][\A c \in Callers : \A id \in SessionIds :
          /\ StopSessionMark(c, id) =>
                IF active_session = None \/ active_session # id
                THEN last' = Returned("stop", None, "NotFound", None)
                     /\ UNCHANGED <<engine, cpc>>
                ELSE last' = NoReturn /\ cpc'[c] = "stop_join"
          /\ PauseSession(c, id) =>
                IF active_session = None \/ active_session # id
                THEN last' = Returned("pause", None, "NotFound", None)
                     /\ UNCHANGED <<engine, cpc>>
                ELSE last'.res = "ok"
          /\ ResumeSession(c, id) =>
                IF active_session = None \/ active_session # id
                THEN last' = Returned("resume", None, "NotFound", None)
                     /\ UNCHANGED <<engine, cpc>>
                ELSE last'.res = "ok"]_vars

C5_Witness ==
    /\ last.op = "stop" /\ last.res = "NotFound"
    /\ active_session = None /\ nextId > 1
    /\ \A c \in Callers : cpc[c] = "idle"

\* C6: a start on an empty engine with an interval <= 0, given or taken from
\* the configuration, fails with InvalidInterval and changes nothing; with a
\* positive interval it succeeds.
C6_InvalidInterval ==
    [][\A c \in Callers : \A i \in IntervalArgs :
          (StartSession(c, i) /\ active_session = None) =>
             IF IntervalOf(i) <= 0
             THEN /\ last' = Returned("start", i, "InvalidInterval", None)
                  /\ UNCHANGED engine
             ELSE last'.res = "ok"]_vars

C6_Witness ==
    /\ last = Returned("start", None, "InvalidInterval", None)
    /\ active_session = None /\ nextId = 1
    /\ \A w \in Workers : wpc[w] = "unborn"

\* C7: a successful start returns the Session the slot then holds, with the
\* interval asked for (or the configured one), active, nothing captured and
\* every optional field unset; the signal is cleared and exactly one worker
\* is launched; get_active returns the slot's Session and changes nothing.
C7_StartResult ==
    [][/\ \A c \in Callers : \A i \in IntervalArgs :
             (StartSession(c, i) /\ last'.res = "ok") =>
                /\ last'.val # None /\ active_session' = last'.val
                /\ session' = FreshSession(last'.val, i)
                /\ stop_event' = FALSE
                /\ {w \in Workers : wpc'[w] # wpc[w]} = {last'.val}
                /\ wpc[last'.val] = "unborn" /\ wpc'[last'.val] = "init"
                /\ capture_thread' = last'.val
       /\ \A c \in Callers :
             GetActiveSession(c) =>
                last' = Returned("get", None, "ok", active_session)
                /\ UNCHANGED engine]_vars

C7_Witness ==
    /\ last = Returned("start", None, "ok", 2)
    /\ session.interval_seconds = config.interval_seconds
    /\ ~stop_event

\* C8: a start never revives a Session: the Session it creates has an
\* identity no earlier Session had and carries nothing over, and a start
\* on an engine whose Session was stopped succeeds.
C8_NewIdentity ==
    [][\A c \in Callers : \A i \in IntervalArgs :
          StartSession(c, i) =>
             /\ last'.res = "ok" =>
                   /\ session'.id \notin 1..(nextId - 1)
                   /\ session'.id # session.id
                   /\ nextId' > session'.id
                   /\ session'.capture_count = 0
                   /\ session'.paused_at = None
                   /\ session'.previous_screenshot_hash = None
             /\ (active_session = None /\ nextId > 1 /\ IntervalOf(i) > 0)
                   => last'.res = "ok"]_vars

C8_Witness ==
    /\ last.op = "start" /\ last.res = "ok" /\ last.val = 2
    /\ active_session = 2 /\ nextId = 3
    /\ wpc[1] = "done"

\* C9: pause on the current Session sets paused_at only when it is unset and
\* otherwise keeps its value; resume leaves it unset; both succeed and change
\* nothing else.
C9_Idempotent ==
    [][\A c \in Callers : \A id \in SessionIds :
          /\ (PauseSession(c, id) /\ active_session = id) =>
                /\ last'.res = "ok"
                /\ session' = [session EXCEPT !.paused_at =
                                  IF @ = None THEN now ELSE @]
                /\ UNCHANGED <<active_session, capture_thread, stop_event, lock,
                               nextId, wpc, wstart, cpc>>
          /\ (ResumeSession(c, id) /\ active_session = id) =>
                /\ last'.res = "ok"
                /\ session' = [session EXCEPT !.paused_at = None]
                /\ UNCHANGED <<active_session, capture_thread, stop_event, lock,
                               nextId, wpc, wstart, cpc>>]_vars

C9_Witness ==
    /\ last.op = "pause" /\ last.res = "ok"
    /\ active_session # None
    /\ session.paused_at # None /\ session.paused_at < now

LifecycleResults ==
    {"none", "ok", "AlreadyActive", "InvalidInterval", "NotFound", "AttributeError"}

\* C11: a _perform_capture call, failed or not, leaves the slot, is_active
\* and the cancellation signal as they were and the worker alive in its
\* interval sleep with the lock released; a worker in the interval sleep can
\* wake for its next iteration; no lifecycle call returns anything but success
\* or a lifecycle error.
C11_TickFailureContained ==
    [][/\ \A w \in Workers :
             CaptureLoopTick(w) =>
                /\ active_session' = active_session
                /\ session'.id = session.id
                /\ session'.is_active = session.is_active
                /\ stop_event' = stop_event
                /\ wpc'[w] = "sleep" /\ Alive(w)'
                /\ lock' = NoHolder
       /\ \A w \in Workers : wpc[w] = "sleep" => ENABLED CaptureLoopWake(w)
       /\ last'.res \in LifecycleResults]_vars

\* a tick failed after the digest step (digest stored, nothing counted) and
\* the worker of the still active Session sleeps its interval
C11_Witness ==
    /\ active_session # None /\ session.is_active
    /\ session.previous_screenshot_hash # None /\ session.capture_count = 0
    /\ ~stop_event
    /\ wpc[active_session] = "sleep"

\* The running (or last) _perform_capture call made the collaborator call op.
Called(op) == \E i \in 1..Len(calls) : calls[i] = op

\* The last collaborator call of the running (or last) _perform_capture call.
LastCall == IF Len(calls) = 0 THEN "none" ELSE calls[Len(calls)]

\* The last call left capture_count and last_capture_at as it found them.
CountKept ==
    /\ session.capture_count = at_entry.capture_count
    /\ session.last_capture_at = at_entry.last_capture_at

\* C12: capture_count never decreases and always equals the number of
\* send_multimodal_prompt calls that returned; a call that raised in the
\* capture, digest, redaction, compression or transmit step, or that skipped
\* an unchanged artifact, left capture_count and last_capture_at as they
\* were (a call whose cleanup raised after the transmit call returned has
\* counted its capture).
C12_CountsTransmits ==
    [][/\ session'.capture_count >= session.capture_count
       /\ session.capture_count = transmitted
       /\ session'.capture_count = transmitted'
       /\ (ppc = "idle" /\ ended \in {"raised", "skipped"})' =>
             IF (Called("transmit") /\ LastCall = "cleanup")'
             THEN /\ session'.capture_count = at_entry'.capture_count + 1
                  /\ session'.last_capture_at # None
             ELSE CountKept']_vars

\* a second call whose transmit step raised, after a first that was counted
C12_Witness ==
    /\ ppc = "idle" /\ ended = "raised" /\ LastCall = "transmit"
    /\ session.capture_count = 1 /\ transmitted = 1
    /\ at_entry.capture_count = 1

\* C13: with change detection on, a call whose captured artifact has the
\* stored digest ends in the digest step: the Session is left as it was, no
\* redactor, optimizer or transmit call is made, and cleanup is called on the
\* artifact, whose file is gone once the call has returned.
C13_UnchangedSkip ==
    [][(CalculateImageHash /\ screenshot.digest = session.previous_screenshot_hash) =>
          /\ session' = session
          /\ transmitted' = transmitted
          /\ ppc' = "idle"
          /\ ~(Called("redact") \/ Called("compress") \/ Called("transmit"))'
          /\ ended' = "skipped" =>
                /\ calls' = <<"capture", "digest", "cleanup">>
                /\ screenshot.file_path \notin temp_files']_vars

\* a call skipped an unchanged artifact after an earlier one was transmitted
C13_Witness ==
    /\ ppc = "idle" /\ ended = "skipped"
    /\ config.change_detection
    /\ session.capture_count = 1 /\ session = at_entry
    /\ ticks = 2 /\ temp_files = {}

\* C14: with change detection on and no digest stored, the digest step stores
\* the digest of the captured artifact and leaves last_change_detected_at
\* alone, and a call all of whose steps succeed has made exactly one transmit
\* call and has raised capture_count from 0 to 1 with last_change_detected_at
\* still unset.
C14_FirstCaptureTransmits ==
    [][/\ (CalculateImageHash /\ session.previous_screenshot_hash = None
              /\ ppc' # "idle") =>
             /\ session'.previous_screenshot_hash = screenshot.digest
             /\ session'.last_change_detected_at = session.last_change_detected_at
       /\ (ppc' = "idle" /\ ended' = "sent" /\ config.change_detection
              /\ at_entry'.previous_screenshot_hash = None) =>
             /\ Cardinality({i \in 1..Len(calls') : calls'[i] = "transmit"}) = 1
             /\ session'.previous_screenshot_hash # None
             /\ session'.last_change_detected_at = None
             /\ at_entry'.capture_count = 0
             /\ session'.capture_count = 1]_vars

\* the first call of a Session with change detection on went through
C14_Witness ==
    /\ ppc = "idle" /\ ended = "sent" /\ ticks = 1
    /\ config.change_detection
    /\ at_entry.previous_screenshot_hash = None
    /\ session.previous_screenshot_hash # None
    /\ session.capture_count = 1 /\ transmitted = 1

\* C15: when no _perform_capture call is running, no temp file remains.
C15_NoArtifactRemains == ppc = "idle" => temp_files = {}

\* The place of a collaborator call in the order of a tick.
CallRank(op) ==
    CASE op = "capture" -> 1
      [] op = "digest" -> 2
      [] op = "redact" -> 3
      [] op = "compress" -> 4
      [] op = "transmit" -> 5
      [] op = "cleanup" -> 6

\* C20: the calls of a tick are made in the order capture, digest, redact,
\* compress, transmit; with privacy enabled and a zone configured the
\* screenshot handed to the transmit call has been through the redactor in
\* the same tick; a tick whose redactor or optimizer raised makes no transmit
\* call.
C20_RedactedBeforeTransmit ==
    /\ \A i, j \in 1..Len(calls) : i < j => CallRank(calls[i]) < CallRank(calls[j])
    /\ Called("transmit") => Called("capture") /\ Called("compress")
    /\ (config.privacy_enabled /\ config.privacy_zones > 0) =>
          /\ Called("transmit") => Called("redact")
          /\ ppc \in {"optimized", "counted", "sent"} => screenshot.privacy_zones_applied
    /\ (ppc = "idle" /\ ended = "raised" /\ LastCall \in {"redact", "compress"}) =>
          ~Called("transmit")

\* a redacted and re-encoded screenshot has just been transmitted
C20_Witness ==
    /\ ppc = "sent"
    /\ config.privacy_enabled /\ config.privacy_zones > 0
    /\ screenshot.privacy_zones_applied
    /\ calls = <<"capture", "digest", "redact", "compress", "transmit">>

C17_AutoStopClearsSlot ==
    (\A c \in Callers : cpc[c] = "idle") =>
       (active_session = None \/ session.is_active)

\* C18: an evaluation of the idle policy with idle_pause_minutes <= 0, whatever
\* the reading, or with no reading available, whatever the threshold, leaves
\* the Session and its paused_at, set or unset, as they were.
C18_IdleNoOp ==
    [][(IdlePauseEvaluation
          /\ (config.idle_pause_minutes <= 0 \/ idle_reading' = None)) =>
             session' = session]_vars

\* a disabled policy has just seen a long idle time and left the Session
\* unpaused
C18_Witness ==
    /\ config.idle_pause_minutes <= 0
    /\ idle_reading = 120
    /\ at_entry # NoSession /\ at_entry.paused_at = None
    /\ session.paused_at = None

\* C19: with a threshold > 0 and a reading available, one evaluation sets
\* paused_at to now when the reading is at least threshold*60 and paused_at
\* is unset, unsets it when the reading is below and it is set, and leaves it
\* alone otherwise; afterwards paused_at is set exactly when the reading is at
\* least threshold*60, and nothing else of the Session has changed.
C19_IdleDecision ==
    [][(IdlePauseEvaluation /\ config.idle_pause_minutes > 0
          /\ idle_reading' # None) =>
             LET threshold == config.idle_pause_minutes * 60
                 reading == idle_reading'
                 before == session.paused_at
                 after == session'.paused_at
             IN /\ (reading >= threshold /\ before = None) => after = now
                /\ (reading < threshold /\ before # None) => after = None
                /\ (reading >= threshold /\ before # None) => after = before
                /\ (reading < threshold /\ before = None) => after = None
                /\ after # None <=> reading >= threshold
                /\ session' = [session EXCEPT !.paused_at = after]]_vars

\* an idle reading at the threshold has left an older pause timestamp alone
C19_Witness ==
    /\ config.idle_pause_minutes = 2
    /\ idle_reading = 120
    /\ at_entry # NoSession /\ at_entry.paused_at = 0
    /\ session.paused_at = 0 /\ now = 1

\* C21: when apply_privacy_zones has returned a redacted image, its black
\* pixels are exactly the pixels inside the half-open rectangles
\* [x, x+width) x [y, y+height) of the zones that apply to the screenshot's
\* monitor; every other pixel is as it was.
C21_ExactlyTheZones ==
    (rpc = "returned" /\ img # <<>>) =>
       \A p \in Pixels : img[p] = "black" <=> p \in claimed

\* C22: apply_privacy_zones with an empty zone list returns the screenshot it
\* was given with privacy_zones_applied set and every other field as it was,
\* loads no image and creates or deletes no file.
C22_NoZones ==
    [][ApplyZonesEmpty =>
          /\ screenshot' = [screenshot EXCEPT !.privacy_zones_applied = TRUE]
          /\ screenshot'.file_path = screenshot.file_path
          /\ screenshot'.optimized_size_bytes = screenshot.optimized_size_bytes
          /\ temp_files' = temp_files
          /\ img' = <<>>
          /\ rpc' = "returned"]_vars

\* a call with no zones has returned the marked screenshot, its file in place
C22_Witness ==
    /\ rpc = "returned" /\ img = <<>>
    /\ screenshot.privacy_zones_applied
    /\ screenshot.file_path = 1 /\ temp_files = {1}
    /\ zones_left = 0

\* C23: when optimize_image has returned and the limit is at least the size
\* the image has at the lowest quality and scale 0.3, the size of the
\* screenshot returned is within the limit.
C23_Converges ==
    (opc = "returned" /\ max_size_bytes >= floor_size) =>
       screenshot.optimized_size_bytes <= max_size_bytes

\* C24: when optimize_image has returned for a limit below the size the image
\* has at scale 0.3, the file returned was saved at scale 0.3, is larger than
\* the limit, and the warning was logged.
C24_FloorScaleWithWarning ==
    (opc = "returned" /\ max_size_bytes < floor_size /\ ~WithinLimit) =>
       /\ saved.resize_factor = ScaleFloor
       /\ screenshot.optimized_size_bytes > max_size_bytes
       /\ warned

\* the capture threads that are inside a pipeline tick
InTick == {w \in Workers : wpc[w] \in {"tick", "blocked"}}

\* C25: in every reachable state at most one capture thread is inside a
\* pipeline tick (between the start of _perform_capture and its end), and
\* that thread holds the lock, so that no other thread can start one.
C25_TicksSequential ==
    /\ Cardinality(InTick) <= 1
    /\ \A w \in InTick : lock = w

\* a thread is inside a tick while a second live thread waits for the lock
C25_Witness ==
    \E w \in Workers : \E v \in Workers \ {w} :
       wpc[w] = "tick" /\ wpc[v] = "lockwait"

\* a step of a lifecycle call that is made inside `with self._lock`
LifecycleLockedStep ==
    \/ \E c \in Callers : \E i \in IntervalArgs : StartSession(c, i)
    \/ \E c \in Callers : \E id \in SessionIds : StopSessionMark(c, id)
    \/ \E c \in Callers : StopSessionClear(c)
    \/ \E c \in Callers : \E id \in SessionIds : PauseSession(c, id)
    \/ \E c \in Callers : \E id \in SessionIds : ResumeSession(c, id)
    \/ \E c \in Callers : GetActiveSession(c)

\* C27: every step that changes a field of the Session or the Session slot is
\* made by a thread that holds the lock: either the lock was free and the
\* step is one `with self._lock` block, or the step is the tick of the capture
\* thread that holds the lock; and while a capture thread holds the lock no
\* lifecycle call makes a step inside its own `with self._lock` block.
C27_WritesUnderLock ==
    [][/\ (session' # session \/ active_session' # active_session) =>
             \/ lock = NoHolder
             \/ \E w \in Workers : lock = w /\ wpc[w] = "tick" /\ wpc'[w] = "sleep"
       /\ lock # NoHolder => ~LifecycleLockedStep]_vars

\* the capture thread has counted a capture and a caller has paused the
\* Session, each under the lock, and the lock is free again
C27_Witness ==
    /\ session # NoSession
    /\ session.capture_count > 0
    /\ session.paused_at # None
    /\ lock = NoHolder
    /\ \E w \in Workers : wpc[w] = "sleep"

\* C28: a capture thread that sleeps, in the paused sleep or in the interval
\* sleep, does not hold the lock.
C28_NoLockWhileSleeping ==
    \A w \in Workers : wpc[w] \in {"paused_sleep", "sleep"} => lock # w

\* C29: an iteration of the capture loop that finds paused_at set after the
\* idle policy goes to the paused sleep and not to _perform_capture, and the
\* paused sleep changes no field of the Session and leads back to the loop
\* test.
C29_PausedIterationIdle ==
    [][\A w \in Workers :
          /\ (CaptureLoopEnter(w) /\ active_session # None /\ ~MaxDurationReached(w)
                /\ session'.paused_at # None) =>
                   /\ wpc'[w] = "paused_sleep"
                   /\ session' = [session EXCEPT !.paused_at = session'.paused_at]
          /\ wpc[w] = "paused_sleep" =>
                   /\ session' = session
                   /\ active_session' = active_session
                   /\ wpc'[w] \in {"paused_sleep", "top"}]_vars

\* the capture thread is in its paused sleep, the Session paused and nothing
\* captured
C29_Witness ==
    \E w \in Workers :
       /\ wpc[w] = "paused_sleep"
       /\ session.paused_at # None
       /\ session.capture_count = 0

\* C26: a caller that reads capture_count and last_capture_at of the Session
\* object it holds never finds a capture counted whose time is not stored
\* yet: capture_count above 0 goes with a last_capture_at that is set.
C26_CountAndStampTogether ==
    last.op = "read" =>
       (last.val.capture_count > 0 => last.val.last_capture_at # None)

\* C30: with change detection on, between two _perform_capture calls
\* previous_screenshot_hash is unset, or the digest of the last artifact that
\* was transmitted, or the digest of the first artifact that was hashed.
C30_DigestOfSentOrFirst ==
    (config.change_detection /\ ppc = "idle") =>
       session.previous_screenshot_hash \in {None, seen.first, seen.sent}

\* C31: no capture thread is inside a pipeline tick of a Session that a stop
\* call has marked inactive: once is_active is false and the cancellation
\* signal is raised, no _perform_capture call begins.
C31_NoTickAfterStop ==
    \A w \in Workers :
       wpc[w] = "tick" => ~(session # NoSession /\ ~session.is_active /\ stop_event)

\* C32: a capture thread runs pipeline ticks only for the Session it was
\* started for: whenever thread w is inside a tick, the slot holds Session w.
C32_WorkerBoundToSession ==
    \A w \in Workers : wpc[w] \in {"tick", "blocked"} => active_session = w

\* C33: the second critical section of a stop call unsets the slot only when
\* the slot holds the Session this stop call has marked inactive; a Session
\* started since, still active, stays set.
C33_StopClearsOwnSession ==
    [][\A c \in Callers :
          (StopSessionClear(c) /\ active_session # None) => ~session.is_active]_vars

\* C34: every lifecycle call returns success or one of AlreadyActive,
\* InvalidInterval and NotFound.
C34_OnlyLifecycleErrors ==
    last.res \in {"none", "ok", "AlreadyActive", "InvalidInterval", "NotFound"}

\* C36: a capture thread marks a Session inactive by itself only when a
\* duration limit is configured and the time since that Session's started_at
\* has reached it.
C36_NoEarlyAutoStop ==
    [][\A w \in Workers :
          (CaptureLoopEnter(w) /\ session # NoSession /\ session.is_active
             /\ ~session'.is_active) =>
                /\ config.max_duration_minutes > 0
                /\ now - session.started_at >= config.max_duration_minutes]_vars

\* C35: whenever the slot holds a Session whose is_active is true, the
\* capture thread started for it is alive.
C35_ActiveSessionHasWorker ==
    (active_session # None /\ session.is_active) =>
       (capture_thread = active_session /\ Alive(capture_thread))

\* C37: a pause is lifted only by a resume call or by an evaluation of the
\* idle policy with idle_pause_minutes > 0 and a reading available; with the
\* policy disabled or no reading, paused_at stays as the pause call set it, and
\* no capture thread is ever about to call _perform_capture while paused_at
\* is set.
C37_ManualPauseHolds ==
    [][/\ (session.paused_at # None /\ session'.paused_at # session.paused_at) =>
             \/ \E c \in Callers : \E id \in SessionIds : ResumeSession(c, id)
             \/ /\ IdlePauseEvaluation
                /\ config.idle_pause_minutes > 0
                /\ idle_reading' # None
       /\ \A w \in Workers : wpc'[w] = "tick" => session'.paused_at = None]_vars

\* a caller paused the Session, the policy is enabled, an evaluation found no
\* reading, and the capture thread is in its paused sleep with the pause as
\* the caller set it
C37_Witness ==
    /\ config.idle_pause_minutes > 0
    /\ idle_reading = None
    /\ at_entry # NoSession /\ at_entry.paused_at # None
    /\ session.paused_at = at_entry.paused_at
    /\ \E w \in Workers : wpc[w] = "paused_sleep"

\* C38: every optimize_image call ends: the loop makes at most 10 iterations,
\* each of them saving one encoding, and a call that returns after the loop
\* returns the file saved last.
C38_CompressorTerminates ==
    /\ [](iteration <= max_iterations)
    /\ []((opc = "returned" /\ saved # NothingSaved) =>
             screenshot.optimized_size_bytes = new_size)
    /\ <>(opc \in {"returned", "raised"})

\* a call has made all ten iterations without meeting the limit and has
\* returned the encoding saved last
C38_Witness ==
    /\ opc = "returned"
    /\ iteration = max_iterations
    /\ screenshot.optimized_size_bytes = new_size
    /\ new_size > max_size_bytes

\* C39: every encoding optimize_image saves has a quality of at least 50 and
\* a scale of at least 0.3.
C39_AboveTheFloors ==
    saved # NothingSaved =>
       /\ saved.quality >= QualityFloor
       /\ saved.resize_factor >= ScaleFloor

\* the capture thread that holds the lock can take its next step
HolderCanStep ==
    \E w \in Workers :
       /\ lock = w
       /\ ENABLED (CaptureLoopTick(w) \/ CaptureLoopPausedSleep(w))

\* C40: when no pipeline tick hangs, the lock is held only by a capture
\* thread that is inside its tick or its paused sleep and can go on; a stop
\* call that waits for the capture thread does so without the lock and its
\* wait can end; a stop call before its second critical section, and every
\* live capture thread, can take its next step or waits for the lock while
\* the lock's holder can take its own.
C40_DeadlockFree ==
    (\A v \in Workers : wpc[v] # "blocked") =>
       /\ lock # NoHolder =>
             lock \in Workers /\ wpc[lock] \in {"tick", "paused_sleep"} /\ HolderCanStep
       /\ \A c \in Callers :
             /\ cpc[c] = "stop_join" =>
                   ENABLED (StopSessionJoined(c) \/ StopSessionJoinTimeout(c))
             /\ cpc[c] = "stop_final" => (ENABLED StopSessionClear(c) \/ HolderCanStep)
       /\ \A w \in Workers :
             Alive(w) =>
                \/ ENABLED (CaptureLoopBegin(w) \/ CaptureLoopTest(w) \/ CaptureLoopEnter(w)
                              \/ CaptureLoopPausedSleep(w) \/ CaptureLoopTick(w)
                              \/ CaptureLoopWake(w))
                \/ wpc[w] = "lockwait" /\ HolderCanStep

\* a stop call is past its wait and needs the lock while a capture thread,
\* a second one waiting behind it, is inside a tick it can finish
C40_Witness ==
    \E c \in Callers : \E w \in Workers : \E v \in Workers \ {w} :
       /\ cpc[c] = "stop_final"
       /\ lock = w /\ wpc[w] = "tick"
       /\ wpc[v] = "lockwait"
====
